---- MODULE Spec2Model ----
(***************************************************************************)
(* Model of the chat-bot repository: the in-memory SessionManager          *)
(* (src/src/session/session_manager.py) and the RAGPipeline orchestration  *)
(* (src/src/rag_pipeline.py) with its query reformulator and LLM clients.  *)
(***************************************************************************)
EXTENDS Integers, Sequences, FiniteSets, TLC

(***************************************************************************)
(* Bounds of the model.                                                    *)
(***************************************************************************)
\* SessionManager.max_history (default 10), scaled down
MaxHistory == 1
\* SessionManager.session_timeout in clock ticks (default 60 minutes), scaled down
SessionTimeout == 1
\* number of session ids create_session can hand out
MaxSessions == 2
\* last value of the clock
MaxTime == SessionTimeout + 1
\* successful appends recorded, over all sessions
MaxAppends == 2 * MaxHistory + 1
\* successful appends recorded in a run of the pipeline
MaxPipelineAppends == 4
\* largest max_messages argument passed to get_history
MaxArg == 2 * MaxHistory

SessionIds == 1..MaxSessions
\* the max_messages arguments passed to get_history: omitted, or 0..MaxArg
MaxArgs == {<< >>} \cup {<< n >> : n \in 0..MaxArg}
Roles == {"user", "assistant"}
\* role and content passed to SessionManager.add_message by a direct caller:
\* the code reads neither, so the n-th message appended to session id
\* carries the content "id.n", which makes every stored message distinct
DirectRoles == {"user"}
DirectContent(id, n) == ToString(id) \o "." \o ToString(n)
\* Python's None, and a value that is not None: an optional value is a
\* sequence of length at most one
None == << >>
Some(x) == << x >>
\* Python's truth value of an optional integer: None and 0 are both false
Truthy(opt) == opt # None /\ opt[1] # 0

VARIABLES
    sessions,   \* SessionManager.sessions: id -> ConversationSession
    now,        \* datetime.now()
    nextId,     \* number of ids handed out by uuid.uuid4() so far
    cfg,        \* the configuration the RAGPipeline was constructed with
    log,        \* history variable: id -> every message appended with success
    last,       \* history variable: the last call and what it returned
    threads     \* the calls of SessionManager methods in progress, per thread

vars == <<sessions, now, nextId, cfg, log, last, threads>>

\* the threads that call add_message, and the one that sweeps
MaxThreads == 2
Workers == 1..MaxThreads
Sweeper == 0
\* a thread outside any call, after `calls` calls
IdleFrame(calls) ==
    [pc |-> "idle", sid |-> 0, content |-> "", seen |-> 0, tmp |-> << >>,
     calls |-> calls]
NoCalls == [t \in Workers \cup {Sweeper} |-> IdleFrame(0)]

(***************************************************************************)
(* Python helpers                                                          *)
(***************************************************************************)
\* seq[-n:] for n >= 0; note that seq[-0:] is seq[0:], the whole list
SliceLast(seq, n) ==
    IF n = 0 \/ n >= Len(seq) THEN seq
    ELSE SubSeq(seq, Len(seq) - n + 1, Len(seq))

\* min(a, b)
Min(a, b) == IF a <= b THEN a ELSE b

\* seq[:k] for k >= 0
Take(seq, k) == SubSeq(seq, 1, Min(k, Len(seq)))

\* del d[k]
DelKey(d, k) == [i \in (DOMAIN d) \ {k} |-> d[i]]

\* d[k] = v
SetKey(d, k, v) == [i \in (DOMAIN d) \cup {k} |-> IF i = k THEN v ELSE d[i]]

(***************************************************************************)
(* Texts: the queries, the bodies the language model sends back and the    *)
(* fixed strings of HuggingFaceClient.generate_response, each with the     *)
(* attributes the code computes from it.                                   *)
(***************************************************************************)
Q_FOLLOWUP == "How do I return it?"
Q_LONG == "What is your return policy for opened items?"
Q_PUNCT == "?"
R_GOOD == "How do I return the wireless headphones?"
R_QUOTED == "\"How do I return the wireless headphones?\""
R_EMPTY == ""
A_TWO == "You can return it within 30 days. Keep the receipt."
A_TWO_FORMATTED == "You can return it within 30 days. Keep the receipt.\n"
E_401 == "API authentication required. Please get a free API key from console.groq.com and add it to your .env file as HUGGINGFACE_API_KEY"
E_429 == "Rate limit reached. Please wait a moment and try again."
E_KEY == "Error generating response: 'choices'"
E_KEY_CLEAN == "Error generating response: 'choices"
E_TIMEOUT == "Error generating response: HTTPSConnectionPool(host='api.groq.com', port=443): Read timed out. (read timeout=30)"
\* what ClaudeClient.generate_response returns for stream=True
GENERATOR == "<generator>"

\* the queries process_query is called with: one that needs reformulation
\* and one that does not
Queries == {Q_FOLLOWUP, Q_LONG}
\* the texts generate_response returns in place of an answer when the call failed
ErrorTexts == {E_401, E_429, E_KEY, E_KEY_CLEAN, E_TIMEOUT}

\* len(t), len(t.split()), t.strip('?.! ') == '', 'reformulated' or
\* 'standalone' in t.lower(), a reference word of _needs_reformulation as
\* a standalone word or leading phrase, a leading question word
TextInfo(t) ==
    CASE t = Q_FOLLOWUP  -> [len |-> 19,  tokens |-> 5,  punct |-> FALSE, meta |-> FALSE, ref |-> FALSE, qword |-> TRUE]
      [] t = Q_LONG      -> [len |-> 44,  tokens |-> 8,  punct |-> FALSE, meta |-> FALSE, ref |-> FALSE, qword |-> TRUE]
      [] t = Q_PUNCT     -> [len |-> 1,   tokens |-> 1,  punct |-> TRUE,  meta |-> FALSE, ref |-> FALSE, qword |-> FALSE]
      [] t = R_GOOD      -> [len |-> 40,  tokens |-> 7,  punct |-> FALSE, meta |-> FALSE, ref |-> FALSE, qword |-> TRUE]
      [] t = R_QUOTED    -> [len |-> 42,  tokens |-> 7,  punct |-> FALSE, meta |-> FALSE, ref |-> FALSE, qword |-> FALSE]
      [] t = R_EMPTY     -> [len |-> 0,   tokens |-> 0,  punct |-> TRUE,  meta |-> FALSE, ref |-> FALSE, qword |-> FALSE]
      [] t = A_TWO       -> [len |-> 51,  tokens |-> 10, punct |-> FALSE, meta |-> FALSE, ref |-> TRUE,  qword |-> FALSE]
      [] t = A_TWO_FORMATTED -> [len |-> 52, tokens |-> 10, punct |-> FALSE, meta |-> FALSE, ref |-> TRUE, qword |-> FALSE]
      [] t = E_401       -> [len |-> 128, tokens |-> 20, punct |-> FALSE, meta |-> FALSE, ref |-> TRUE,  qword |-> FALSE]
      [] t = E_429       -> [len |-> 55,  tokens |-> 10, punct |-> FALSE, meta |-> FALSE, ref |-> FALSE, qword |-> FALSE]
      [] t = E_KEY       -> [len |-> 36,  tokens |-> 4,  punct |-> FALSE, meta |-> FALSE, ref |-> FALSE, qword |-> FALSE]
      [] t = E_KEY_CLEAN -> [len |-> 35,  tokens |-> 4,  punct |-> FALSE, meta |-> FALSE, ref |-> FALSE, qword |-> FALSE]
      [] t = E_TIMEOUT   -> [len |-> 112, tokens |-> 10, punct |-> FALSE, meta |-> FALSE, ref |-> FALSE, qword |-> FALSE]

\* t.strip().strip('"').strip("'")
Clean(t) ==
    CASE t = R_QUOTED        -> R_GOOD
      [] t = E_KEY           -> E_KEY_CLEAN
      [] t = A_TWO_FORMATTED -> A_TWO
      [] OTHER               -> t

(***************************************************************************)
(* The language-model clients.  A call is answered by one HTTP reply:      *)
(* "200" with a body, "401", "429", "badjson" (a 200 whose JSON lacks      *)
(* 'choices') or "timeout" (requests.post raises).                         *)
(***************************************************************************)
Replies == {"200", "401", "429", "badjson", "timeout"}
\* the replies to the answer-generation call of process_query
GenReplies == {"200", "429"}

\* HuggingFaceClient._format_response: a text of one sentence on one line is
\* returned as is; after the second sentence of a line a paragraph break is
\* inserted
FormatResponse(t) ==
    CASE t = A_TWO -> A_TWO_FORMATTED
      [] OTHER     -> t

\* HuggingFaceClient.generate_response: every failure is returned as a text
HuggingFaceGenerate(reply, body) ==
    [raised |-> FALSE,
     text |-> CASE reply = "200"     -> FormatResponse(body)
                [] reply = "401"     -> E_401
                [] reply = "429"     -> E_429
                [] reply = "badjson" -> E_KEY
                [] reply = "timeout" -> E_TIMEOUT]

\* ClaudeClient.generate_response: a failure of the API call is raised; with
\* stream=True a generator is returned and nothing is called yet
ClaudeGenerate(reply, body, stream) ==
    IF stream THEN [raised |-> FALSE, text |-> GENERATOR]
    ELSE IF reply = "200" THEN [raised |-> FALSE, text |-> body]
    ELSE [raised |-> TRUE, text |-> ""]

\* claude_client.generate_response of the pipeline, for the configured provider
GenerateResponse(provider, reply, body, stream) ==
    IF provider = "huggingface"
    THEN HuggingFaceGenerate(reply, body)
    ELSE ClaudeGenerate(reply, body, stream)

(***************************************************************************)
(* QueryReformulator                                                       *)
(***************************************************************************)
\* QueryReformulator._needs_reformulation
NeedsReformulation(query) ==
    \/ TextInfo(query).tokens <= 3
    \/ TextInfo(query).ref
    \/ TextInfo(query).qword /\ TextInfo(query).tokens <= 5

\* QueryReformulator._is_valid_reformulation
IsValidReformulation(original, reformulated) ==
    /\ ~(TextInfo(reformulated).len > TextInfo(original).len * 3)
    /\ ~(TextInfo(reformulated).tokens < 3)
    /\ ~(reformulated = "" \/ TextInfo(reformulated).punct)
    /\ ~TextInfo(reformulated).meta

\* mutant: the history is not looked at
ReformulateCallsWithoutHistory(query, history) == NeedsReformulation(query)

\* QueryReformulator.reformulate calls the language model
ReformulateCalls(query, history) ==
    history # << >> /\ NeedsReformulation(query)

\* QueryReformulator.reformulate, given the reply to its call
Reformulate(provider, query, history, reply, body) ==
    IF ~ReformulateCalls(query, history) THEN query
    ELSE LET r == GenerateResponse(provider, reply, body, FALSE) IN
         IF r.raised THEN query
         ELSE IF IsValidReformulation(query, Clean(r.text)) THEN Clean(r.text)
         ELSE query

(***************************************************************************)
(* RAGPipeline.process_query                                               *)
(***************************************************************************)
\* step 2: the reformulated query
ReformulatedQuery(c, query, history, reply, body) ==
    IF c.use_query_reformulation /\ history # << >>
    THEN Reformulate(c.llm_provider, query, history, reply, body)
    ELSE query

\* step 3 raises: hybrid_retrieval is only set when reformulation is enabled
RetrievalRaises(c, query, reformulated) ==
    /\ ~(c.use_query_reformulation /\ reformulated # query)
    /\ c.bm25
    /\ ~c.use_query_reformulation

\* step 3: the retrieval passes run, as <<retriever, query, weight in tenths>>
RetrievalPasses(c, query, reformulated) ==
    IF c.use_query_reformulation /\ reformulated # query
    THEN \* HybridRetrieval.retrieve_full_hybrid
         << <<"vector", query, 5>> >>
         \o (IF c.bm25 THEN << <<"bm25", query, 3>> >> ELSE << >>)
         \o (IF reformulated # query
             THEN << <<"vector", reformulated, 2>> >> ELSE << >>)
    ELSE IF c.bm25
    THEN \* HybridRetrieval.retrieve_hybrid
         << <<"vector", query, 6>>, <<"bm25", query, 4>> >>
    ELSE \* DocumentRetriever.retrieve
         << <<"vector", reformulated, 10>> >>

(***************************************************************************)
(* ConversationSession                                                     *)
(***************************************************************************)
\* ConversationSession.__init__ (created_at and metadata are never read)
NewSession(t) == [messages |-> <<>>, last_active |-> t]

\* a message; its 'timestamp' field is never read and is left out
Message(role, content) == [role |-> role, content |-> content]

\* mutant: the append forgets to refresh last_active
SessionAddMessageStale(s, role, content, t) ==
    [messages |-> Append(s.messages, Message(role, content)),
     last_active |-> s.last_active]

\* ConversationSession.add_message
SessionAddMessage(s, role, content, t) ==
    [messages |-> Append(s.messages, Message(role, content)),
     last_active |-> t]

\* ConversationSession.get_history
SessionGetHistory(s, max_messages) ==
    IF Truthy(max_messages) /\ Len(s.messages) > max_messages[1]
    THEN SliceLast(s.messages, max_messages[1])
    ELSE s.messages

\* ConversationSession.is_expired
is_expired(s, t) == t - s.last_active > SessionTimeout

(***************************************************************************)
(* SessionManager, as functions of the store                               *)
(***************************************************************************)
\* mutant: get_session does not look at the age of the session
GetSessionRetNoExpiry(store, id, t) ==
    IF id \notin DOMAIN store THEN None ELSE Some(store[id])

\* the session get_session returns for id, or None
GetSessionRet(store, id, t) ==
    IF id \notin DOMAIN store THEN None
    ELSE IF is_expired(store[id], t) THEN None
    ELSE Some(store[id])

\* mutant: get_session leaves the expired session in the store
GetSessionStoreKeeps(store, id, t) == store

\* mutant: get_session sweeps every expired session out of the store
GetSessionStoreSweeps(store, id, t) ==
    [i \in {j \in DOMAIN store : ~is_expired(store[j], t)} |-> store[i]]

\* the store get_session leaves behind
GetSessionStore(store, id, t) ==
    IF id \in DOMAIN store /\ is_expired(store[id], t)
    THEN DelKey(store, id)
    ELSE store

\* mutant: the history is never trimmed
TrimHistoryNever(s) == s

\* mutant: the trimming keeps the oldest messages
TrimHistoryKeepsOldest(s) ==
    IF Len(s.messages) > MaxHistory * 2
    THEN [s EXCEPT !.messages = SubSeq(s.messages, 1, MaxHistory * 2)]
    ELSE s

\* mutant: the bound is max_history messages, not max_history exchanges
TrimHistoryToMaxHistory(s) ==
    IF Len(s.messages) > MaxHistory
    THEN [s EXCEPT !.messages = SliceLast(s.messages, MaxHistory)]
    ELSE s

\* the trimming at the end of SessionManager.add_message
TrimHistory(s) ==
    IF Len(s.messages) > MaxHistory * 2
    THEN [s EXCEPT !.messages = SliceLast(s.messages, MaxHistory * 2)]
    ELSE s

\* SessionManager.add_message: return value
AddMessageRet(store, id, t) == GetSessionRet(store, id, t) # None

\* mutant: add_message opens a session for an id it does not find
AddMessageStoreCreates(store, id, role, content, t) ==
    IF GetSessionRet(store, id, t) = None
    THEN SetKey(GetSessionStore(store, id, t), id,
                SessionAddMessage(NewSession(t), role, content, t))
    ELSE SetKey(store, id, TrimHistory(SessionAddMessage(store[id], role, content, t)))

\* SessionManager.add_message: the store it leaves behind
AddMessageStore(store, id, role, content, t) ==
    IF GetSessionRet(store, id, t) = None
    THEN GetSessionStore(store, id, t)
    ELSE SetKey(store, id, TrimHistory(SessionAddMessage(store[id], role, content, t)))

\* SessionManager.get_history: return value
GetHistoryRet(store, id, max_messages, t) ==
    IF GetSessionRet(store, id, t) = None THEN <<>>
    ELSE SessionGetHistory(store[id],
            IF Truthy(max_messages)
            THEN max_messages ELSE Some(MaxHistory * 2))

\* mutant: delete_session reports success whatever the store holds
DeleteSessionRetAlways(store, id) == TRUE

\* SessionManager.delete_session: return value and store
DeleteSessionRet(store, id) == id \in DOMAIN store

DeleteSessionStore(store, id) ==
    IF id \in DOMAIN store THEN DelKey(store, id) ELSE store

\* SessionManager.cleanup_expired_sessions: the ids it removes
ExpiredIds(store, t) == {i \in DOMAIN store : is_expired(store[i], t)}

\* the history variable log after an add_message call on store at time t
LogAfterAdd(store, lg, id, role, content, t) ==
    IF AddMessageRet(store, id, t)
    THEN [lg EXCEPT ![id] = Append(@, Message(role, content))]
    ELSE lg

\* number of successful appends so far
RECURSIVE SumLen(_, _)
SumLen(f, S) ==
    IF S = {} THEN 0
    ELSE LET i == CHOOSE j \in S : TRUE IN Len(f[i]) + SumLen(f, S \ {i})

Appends == SumLen(log, SessionIds)

(***************************************************************************)
(* Initial state: SessionManager.__init__                                  *)
(***************************************************************************)
Init ==
    /\ sessions = << >>
    /\ now = 0
    /\ nextId = 0
    /\ threads = NoCalls
    /\ log = [i \in SessionIds |-> <<>>]
    /\ last = [op |-> "init", sid |-> 0, ret |-> None, arg |-> None]
    /\ cfg = [llm_provider |-> "huggingface", use_query_reformulation |-> TRUE,
              bm25 |-> TRUE]

(***************************************************************************)
(* Actions: one per SessionManager operation                               *)
(***************************************************************************)
\* the clock moves forward
Tick ==
    /\ now < MaxTime
    /\ now' = now + 1
    /\ last' = [op |-> "tick", sid |-> 0, ret |-> None, arg |-> None]
    /\ UNCHANGED <<sessions, nextId, log, cfg, threads>>

CreateSession ==
    /\ nextId < MaxSessions
    /\ nextId' = nextId + 1
    /\ sessions' = SetKey(sessions, nextId + 1, NewSession(now))
    /\ last' = [op |-> "create_session", sid |-> nextId + 1, ret |-> nextId + 1,
                arg |-> None]
    /\ UNCHANGED <<now, log, cfg, threads>>

GetSession(id) ==
    /\ sessions' = GetSessionStore(sessions, id, now)
    /\ last' = [op |-> "get_session", sid |-> id,
                ret |-> GetSessionRet(sessions, id, now), arg |-> None]
    /\ UNCHANGED <<now, nextId, log, cfg, threads>>

AddMessage(id, role, content) ==
    /\ Appends < MaxAppends
    /\ sessions' = AddMessageStore(sessions, id, role, content, now)
    /\ log' = LogAfterAdd(sessions, log, id, role, content, now)
    /\ last' = [op |-> "add_message", sid |-> id,
                ret |-> AddMessageRet(sessions, id, now),
                arg |-> Message(role, content)]
    /\ UNCHANGED <<now, nextId, cfg, threads>>

GetHistory(id, max_messages) ==
    /\ sessions' = GetSessionStore(sessions, id, now)
    /\ last' = [op |-> "get_history", sid |-> id,
                ret |-> GetHistoryRet(sessions, id, max_messages, now),
                arg |-> max_messages]
    /\ UNCHANGED <<now, nextId, log, cfg, threads>>

DeleteSession(id) ==
    /\ sessions' = DeleteSessionStore(sessions, id)
    /\ last' = [op |-> "delete_session", sid |-> id,
                ret |-> DeleteSessionRet(sessions, id), arg |-> None]
    /\ UNCHANGED <<now, nextId, log, cfg, threads>>

CleanupExpiredSessions ==
    /\ sessions' = [i \in (DOMAIN sessions) \ ExpiredIds(sessions, now) |-> sessions[i]]
    /\ last' = [op |-> "cleanup_expired_sessions", sid |-> 0,
                ret |-> Cardinality(ExpiredIds(sessions, now)), arg |-> None]
    /\ UNCHANGED <<now, nextId, log, cfg, threads>>

Next ==
    \/ Tick
    \/ CreateSession
    \/ \E id \in SessionIds : GetSession(id)
    \/ \E id \in SessionIds, role \in DirectRoles :
          AddMessage(id, role, DirectContent(id, Len(log[id]) + 1))
    \/ \E id \in SessionIds, m \in MaxArgs : GetHistory(id, m)
    \/ \E id \in SessionIds : DeleteSession(id)
    \/ CleanupExpiredSessions

Spec == Init /\ [][Next]_vars

(***************************************************************************)
(* SessionManager called from several threads.  The class takes no lock,   *)
(* so the statements of add_message and cleanup_expired_sessions running   *)
(* in different threads interleave; one step below is one statement, the   *)
(* assignment of the trimmed history being two (the slice is evaluated,    *)
(* then stored), and get_session is taken as one step.  A thread that has  *)
(* looked up a session keeps the object when the id is deleted from the    *)
(* store: what it then does to the object is not seen in the store.  An    *)
(* entry of log carries `seen`, the number of appends to the session that  *)
(* had returned when the call began.                                       *)
(***************************************************************************)
\* the add_message calls of a behaviour
MaxCalls == 2 * MaxHistory + 2

\* what last holds after a statement that returns nothing
Statement == [op |-> "statement", sid |-> 0, ret |-> None, arg |-> None]
\* the thread moves on
Goto(t, pc) == [threads EXCEPT ![t].pc = pc]
\* the call of the thread returns
Return(t) == [threads EXCEPT ![t] = IdleFrame(threads[t].calls)]
\* the session object the thread works on is the one in the store
Attached(t) == threads[t].sid \in DOMAIN sessions

\* the add_message calls made so far by the threads of W
RECURSIVE TotalCalls(_)
TotalCalls(W) ==
    IF W = {} THEN 0
    ELSE LET t == CHOOSE w \in W : TRUE
         IN  threads[t].calls + TotalCalls(W \ {t})

\* a thread calls add_message(sid, 'user', content)
CallAddMessage(t, sid) ==
    /\ threads[t].pc = "idle"
    /\ TotalCalls(Workers) < MaxCalls
    /\ threads' = [threads EXCEPT ![t] =
          [pc |-> "get_session", sid |-> sid,
           content |-> DirectContent(t, threads[t].calls + 1),
           seen |-> Len(log[sid]), tmp |-> << >>,
           calls |-> threads[t].calls + 1]]
    /\ last' = Statement
    /\ UNCHANGED <<sessions, now, nextId, cfg, log>>

\* session = self.get_session(session_id); if not session: return False
StepGetSession(t) ==
    /\ threads[t].pc = "get_session"
    /\ sessions' = GetSessionStore(sessions, threads[t].sid, now)
    /\ IF GetSessionRet(sessions, threads[t].sid, now) = None
       THEN /\ threads' = Return(t)
            /\ last' = [op |-> "add_message", sid |-> threads[t].sid,
                        ret |-> FALSE, arg |-> Some(t)]
       ELSE /\ threads' = Goto(t, "append")
            /\ last' = Statement
    /\ UNCHANGED <<now, nextId, cfg, log>>

\* self.messages.append({...})
StepAppend(t) ==
    /\ threads[t].pc = "append"
    /\ sessions' = IF Attached(t)
                   THEN [sessions EXCEPT ![threads[t].sid].messages =
                            Append(@, Message("user", threads[t].content))]
                   ELSE sessions
    /\ threads' = Goto(t, "last_active")
    /\ last' = Statement
    /\ UNCHANGED <<now, nextId, cfg, log>>

\* self.last_active = datetime.now()
StepLastActive(t) ==
    /\ threads[t].pc = "last_active"
    /\ sessions' = IF Attached(t)
                   THEN [sessions EXCEPT ![threads[t].sid].last_active = now]
                   ELSE sessions
    /\ threads' = Goto(t, "len")
    /\ last' = Statement
    /\ UNCHANGED <<now, nextId, cfg, log>>

\* add_message returns True
ReturnTrue(t) ==
    /\ threads' = Return(t)
    /\ log' = [log EXCEPT ![threads[t].sid] =
                  Append(@, [role |-> "user", content |-> threads[t].content,
                             seen |-> threads[t].seen])]
    /\ last' = [op |-> "add_message", sid |-> threads[t].sid, ret |-> TRUE,
                arg |-> Some(t)]

\* if len(session.messages) > self.max_history * 2: ... ; return True
StepLen(t) ==
    /\ threads[t].pc = "len"
    /\ IF Attached(t)
          /\ Len(sessions[threads[t].sid].messages) > MaxHistory * 2
       THEN /\ threads' = Goto(t, "slice")
            /\ last' = Statement
            /\ UNCHANGED log
       ELSE ReturnTrue(t)
    /\ UNCHANGED <<sessions, now, nextId, cfg>>

\* the right-hand side session.messages[-(self.max_history * 2):]
StepSlice(t) ==
    /\ threads[t].pc = "slice"
    /\ threads' = [threads EXCEPT
                     ![t].pc = "store",
                     ![t].tmp = IF Attached(t)
                                THEN SliceLast(sessions[threads[t].sid].messages,
                                               MaxHistory * 2)
                                ELSE << >>]
    /\ last' = Statement
    /\ UNCHANGED <<sessions, now, nextId, cfg, log>>

\* session.messages = <the slice>; return True
StepStore(t) ==
    /\ threads[t].pc = "store"
    /\ sessions' = IF Attached(t)
                   THEN [sessions EXCEPT ![threads[t].sid].messages = threads[t].tmp]
                   ELSE sessions
    /\ ReturnTrue(t)
    /\ UNCHANGED <<now, nextId, cfg>>

\* the ids of a set in the order of the dict (the order of creation)
RECURSIVE InOrder(_)
InOrder(S) ==
    IF S = {} THEN << >>
    ELSE LET least == CHOOSE i \in S : \A j \in S : i <= j
         IN  << least >> \o InOrder(S \ {least})

\* expired = [sid for sid, session in self.sessions.items() if ...]
SweepCollect ==
    /\ threads[Sweeper].pc = "idle"
    /\ IF ExpiredIds(sessions, now) = {}
       THEN /\ threads' = threads
            /\ last' = [op |-> "cleanup_expired_sessions", sid |-> 0,
                        ret |-> Some(0), arg |-> None]
       ELSE /\ threads' = [threads EXCEPT
                             ![Sweeper].pc = "del",
                             ![Sweeper].tmp = InOrder(ExpiredIds(sessions, now)),
                             ![Sweeper].calls = Cardinality(ExpiredIds(sessions, now))]
            /\ last' = [op |-> "expired", sid |-> 0, ret |-> None, arg |-> None]
    /\ UNCHANGED <<sessions, now, nextId, cfg, log>>

\* for sid in expired: del self.sessions[sid]; a KeyError ends the sweep
SweepDel ==
    /\ threads[Sweeper].pc = "del"
    /\ LET sid == Head(threads[Sweeper].tmp)
           rest == Tail(threads[Sweeper].tmp)
       IN  IF sid \in DOMAIN sessions
           THEN /\ sessions' = DelKey(sessions, sid)
                /\ threads' = IF rest = << >>
                              THEN [threads EXCEPT ![Sweeper] = IdleFrame(0)]
                              ELSE [threads EXCEPT ![Sweeper].tmp = rest]
                /\ last' = [op |-> "del", sid |-> sid,
                            ret |-> IF rest = << >>
                                    THEN Some(threads[Sweeper].calls) ELSE None,
                            arg |-> None]
           ELSE /\ sessions' = sessions
                /\ threads' = [threads EXCEPT ![Sweeper] = IdleFrame(0)]
                /\ last' = [op |-> "del", sid |-> sid, ret |-> Some("KeyError"),
                            arg |-> None]
    /\ UNCHANGED <<now, nextId, cfg, log>>

NextThreads ==
    \/ Tick
    \/ CreateSession
    \/ \E t \in Workers, id \in SessionIds : CallAddMessage(t, id)
    \/ \E t \in Workers :
          \/ StepGetSession(t)
          \/ StepAppend(t)
          \/ StepLastActive(t)
          \/ StepLen(t)
          \/ StepSlice(t)
          \/ StepStore(t)
    \/ SweepCollect
    \/ SweepDel

SpecThreads == Init /\ [][NextThreads]_vars

(***************************************************************************)
(* RAGPipeline.process_query.  The API handlers (src/src/api/main.py) are  *)
(* coroutines that never await: the event loop runs each request to its    *)
(* end before the next call is served, so a request is one action.  The    *)
(* calls to the language model are answered by replies chosen by the       *)
(* environment, and the clock may move while the request runs.             *)
(***************************************************************************)
\* the bodies a 200 reply carries for a reformulation prompt
RewriteBodies == {R_GOOD, R_QUOTED, R_EMPTY}
\* the bodies a 200 reply carries for an answer prompt
AnswerBodies == {A_TWO}

\* the replies <<status, body>> to a call of the language model; a call
\* that is not made consumes no reply
NoReply == <<"none", "">>
ReplyInputs(statuses, bodies) ==
    {<<"200", b>> : b \in bodies} \cup {<<r, "">> : r \in statuses \ {"200"}}

\* what process_query hands back: a response, or an exception
Returned(text) == [status |-> "returned", response |-> text]
Raised == [status |-> "raised", response |-> ""]

\* step 2 calls the language model
ReformulationCalled(c, query, history) ==
    c.use_query_reformulation /\ ReformulateCalls(query, history)

\* step 6 calls the language model: ClaudeClient with stream=True only
\* builds a generator
GenerationCalled(c, stream) == ~(c.llm_provider = "claude" /\ stream)

\* process_query(query, session_id, stream): step 1 reads the history at
\* time now, steps 2 to 6 take `elapsed` ticks, step 7 saves the messages
ProcessQuery(sid, query, stream) ==
    /\ Appends + 2 <= MaxPipelineAppends
    /\ LET history == GetHistoryRet(sessions, sid, None, now)
           store0 == GetSessionStore(sessions, sid, now)
       IN
       \E reform \in (IF ReformulationCalled(cfg, query, history)
                      THEN ReplyInputs(Replies, RewriteBodies)
                      ELSE {NoReply}) :
       LET reformulated == ReformulatedQuery(cfg, query, history,
                                             reform[1], reform[2])
           raises3 == RetrievalRaises(cfg, query, reformulated)
       IN
       \E gen \in (IF ~raises3 /\ GenerationCalled(cfg, stream)
                   THEN ReplyInputs(GenReplies, AnswerBodies)
                   ELSE {NoReply}),
          elapsed \in 0..(MaxTime - now) :
       LET r == GenerateResponse(cfg.llm_provider, gen[1], gen[2], stream)
           t7 == now + elapsed
           store1 == AddMessageStore(store0, sid, "user", query, t7)
           log1 == LogAfterAdd(store0, log, sid, "user", query, t7)
           trace == [query |-> query, stream |-> stream, history |-> history,
                     reform |-> reform[1], reform_body |-> reform[2],
                     reformulated |-> reformulated,
                     passes |-> IF raises3 THEN << >>
                                ELSE RetrievalPasses(cfg, query, reformulated),
                     gen |-> gen[1]]
       IN  /\ IF raises3 \/ r.raised
              THEN /\ sessions' = store0
                   /\ log' = log
                   /\ last' = [op |-> "process_query", sid |-> sid,
                               ret |-> Raised, arg |-> trace]
              ELSE /\ IF stream
                      THEN sessions' = store1 /\ log' = log1
                      ELSE /\ sessions' = AddMessageStore(store1, sid,
                                              "assistant", r.text, t7)
                           /\ log' = LogAfterAdd(store1, log1, sid,
                                              "assistant", r.text, t7)
                   /\ last' = [op |-> "process_query", sid |-> sid,
                               ret |-> Returned(r.text), arg |-> trace]
           /\ now' = t7
    /\ UNCHANGED <<nextId, cfg, threads>>

\* RAGPipeline.__init__ with any provider, with and without reformulation
\* and keyword retriever
InitPipeline ==
    /\ sessions = << >>
    /\ now = 0
    /\ nextId = 0
    /\ threads = NoCalls
    /\ log = [i \in SessionIds |-> <<>>]
    /\ last = [op |-> "init", sid |-> 0, ret |-> None, arg |-> None]
    /\ cfg \in [llm_provider : {"huggingface", "claude"},
                use_query_reformulation : BOOLEAN, bm25 : BOOLEAN]

\* the calls the API serves: POST /session/create, DELETE /session/{id}
\* and POST /chat, with the passing of time
NextPipeline ==
    \/ Tick
    \/ CreateSession
    \/ \E id \in SessionIds : DeleteSession(id)
    \/ \E id \in SessionIds, q \in Queries, stream \in BOOLEAN :
          ProcessQuery(id, q, stream)

SpecPipeline == InitPipeline /\ [][NextPipeline]_vars

(***************************************************************************)
(* process_query on a session id that get_session does not find: the id    *)
(* was never handed out, was deleted, or its session has expired.  The     *)
(* sessions are filled through SessionManager.add_message; POST /chat      *)
(* calls process_query with stream=False.                                  *)
(***************************************************************************)
\* the pipeline as startup_event builds it: reformulation enabled, the
\* keyword retriever present when the vector store holds documents
InitMissingSession ==
    /\ sessions = << >>
    /\ now = 0
    /\ nextId = 0
    /\ threads = NoCalls
    /\ log = [i \in SessionIds |-> <<>>]
    /\ last = [op |-> "init", sid |-> 0, ret |-> None, arg |-> None]
    /\ cfg \in [llm_provider : {"huggingface", "claude"},
                use_query_reformulation : {TRUE}, bm25 : BOOLEAN]

ProcessQueryMissing(sid, query, stream) ==
    /\ GetSessionRet(sessions, sid, now) = None
    /\ ProcessQuery(sid, query, stream)

NextMissingSession ==
    \/ Tick
    \/ CreateSession
    \/ \E id \in SessionIds, role \in DirectRoles :
          AddMessage(id, role, DirectContent(id, Len(log[id]) + 1))
    \/ \E id \in SessionIds : DeleteSession(id)
    \/ \E id \in SessionIds, q \in Queries :
          ProcessQueryMissing(id, q, FALSE)

SpecMissingSession == InitMissingSession /\ [][NextMissingSession]_vars

(***************************************************************************)
(* The sessions as the API writes them: POST /chat refuses a request with  *)
(* stream=True and calls process_query with stream=False, and no other     *)
(* handler appends to a session.  The handlers never await, so the         *)
(* requests are served one at a time.                                      *)
(***************************************************************************)
\* the pipeline as startup_event builds it over a vector store that holds
\* documents: reformulation enabled, keyword retriever present
InitChat ==
    /\ sessions = << >>
    /\ now = 0
    /\ nextId = 0
    /\ threads = NoCalls
    /\ log = [i \in SessionIds |-> <<>>]
    /\ last = [op |-> "init", sid |-> 0, ret |-> None, arg |-> None]
    /\ cfg \in [llm_provider : {"huggingface", "claude"},
                use_query_reformulation : {TRUE}, bm25 : {TRUE}]

NextChat ==
    \/ Tick
    \/ CreateSession
    \/ \E id \in SessionIds : DeleteSession(id)
    \/ \E id \in SessionIds, q \in Queries : ProcessQuery(id, q, FALSE)

SpecChat == InitChat /\ [][NextChat]_vars

(***************************************************************************)
(* The calls addressed to one session id, by the pipeline and by direct    *)
(* callers of the SessionManager, over a store of several sessions.        *)
(***************************************************************************)
\* appends by direct callers before the pipeline takes over
MaxDirectAppends == 2

\* the pipeline of startup_event with the HuggingFace client
InitAddressed ==
    /\ sessions = << >>
    /\ now = 0
    /\ nextId = 0
    /\ threads = NoCalls
    /\ log = [i \in SessionIds |-> <<>>]
    /\ last = [op |-> "init", sid |-> 0, ret |-> None, arg |-> None]
    /\ cfg = [llm_provider |-> "huggingface",
              use_query_reformulation |-> TRUE, bm25 |-> TRUE]

NextAddressed ==
    \/ Tick
    \/ CreateSession
    \/ \E id \in SessionIds : GetSession(id)
    \/ \E id \in SessionIds, role \in DirectRoles :
          /\ Appends < MaxDirectAppends
          /\ AddMessage(id, role, DirectContent(id, Len(log[id]) + 1))
    \/ \E id \in SessionIds : GetHistory(id, None)
    \/ \E id \in SessionIds : DeleteSession(id)
    \/ \E id \in SessionIds : ProcessQuery(id, Q_LONG, FALSE)

SpecAddressed == InitAddressed /\ [][NextAddressed]_vars

(***************************************************************************)
(* The session endpoints of the API: GET /session/{id}/history and         *)
(* DELETE /session/{id}.  A response is its status code with the detail of *)
(* the HTTPException or the history of the body.                           *)
(***************************************************************************)
HttpOk(history) == [status |-> 200, detail |-> "", history |-> history]
HttpNotFound == [status |-> 404, detail |-> "Session not found", history |-> << >>]

\* get_session_history: get_history hands back a list on every path, so the
\* value tested by `history is None` is always present
GetSessionHistoryResponse(store, id, t) ==
    LET history == Some(GetHistoryRet(store, id, None, t))
    IN  IF history = None THEN HttpNotFound ELSE HttpOk(history[1])

\* delete_session of the API: 404 when clear_session returns False
DeleteSessionResponse(store, id) ==
    IF ~DeleteSessionRet(store, id) THEN HttpNotFound ELSE HttpOk(<< >>)

ApiGetSessionHistory(id) ==
    /\ sessions' = GetSessionStore(sessions, id, now)
    /\ last' = [op |-> "get_session_history", sid |-> id,
                ret |-> GetSessionHistoryResponse(sessions, id, now),
                arg |-> None]
    /\ UNCHANGED <<now, nextId, log, cfg, threads>>

ApiDeleteSession(id) ==
    /\ sessions' = DeleteSessionStore(sessions, id)
    /\ last' = [op |-> "delete_session_endpoint", sid |-> id,
                ret |-> DeleteSessionResponse(sessions, id), arg |-> None]
    /\ UNCHANGED <<now, nextId, log, cfg, threads>>

NextApi ==
    \/ Tick
    \/ CreateSession
    \/ \E id \in SessionIds, role \in DirectRoles :
          AddMessage(id, role, DirectContent(id, Len(log[id]) + 1))
    \/ \E id \in SessionIds : ApiGetSessionHistory(id)
    \/ \E id \in SessionIds : ApiDeleteSession(id)

SpecApi == Init /\ [][NextApi]_vars

(***************************************************************************)
(* QueryReformulator.reformulate as a function of its arguments and of the *)
(* reply to its call of the language model: the initial state draws them,  *)
(* the action applies the method.                                          *)
(***************************************************************************)
\* the queries reformulate is called with
ReformulateQueries == Queries \cup {Q_PUNCT}
\* the histories reformulate is called with: none, and one earlier exchange
ReformulateHistories ==
    {<< >>, <<Message("user", Q_LONG), Message("assistant", A_TWO)>>}

InitReformulate ==
    /\ sessions = << >>
    /\ now = 0
    /\ nextId = 0
    /\ threads = NoCalls
    /\ log = [i \in SessionIds |-> <<>>]
    /\ cfg \in [llm_provider : {"huggingface", "claude"},
                use_query_reformulation : {TRUE}, bm25 : {FALSE}]
    /\ \E query \in ReformulateQueries, history \in ReformulateHistories,
          reform \in ReplyInputs(Replies, RewriteBodies) :
          last = [op |-> "init", sid |-> 0, ret |-> None,
                  arg |-> [query |-> query, history |-> history,
                           called |-> FALSE,
                           reform |-> reform[1], reform_body |-> reform[2]]]

\* query_reformulator.reformulate(query, history)
ReformulateCall ==
    /\ last.op = "init"
    /\ last' = [last EXCEPT
                  !.op = "reformulate",
                  !.arg.called = ReformulateCalls(last.arg.query,
                                                  last.arg.history),
                  !.ret = Some(Reformulate(cfg.llm_provider, last.arg.query,
                                           last.arg.history, last.arg.reform,
                                           last.arg.reform_body))]
    /\ UNCHANGED <<sessions, now, nextId, cfg, log, threads>>

NextReformulate == ReformulateCall

SpecReformulate == InitReformulate /\ [][NextReformulate]_vars

(***************************************************************************)
(* Python floats (IEEE 754 doubles) of the rank fusion scores, computed    *)
(* exactly.  A natural number of any size is the sequence of its digits in *)
(* base 2^13, lowest digit first and without a leading zero digit; a       *)
(* double is [m, e] standing for m * 2^e with a mantissa m of exactly 53   *)
(* bits, or the zero [<< >>, 0].  The result of an operation is its exact  *)
(* value rounded to the nearest double, ties to even.                      *)
(***************************************************************************)
Base == 8192
BaseBits == 13

RECURSIVE Pow2(_)
Pow2(n) == IF n = 0 THEN 1 ELSE 2 * Pow2(n - 1)

RECURSIVE Bits(_)
Bits(n) == IF n = 0 THEN 0 ELSE 1 + Bits(n \div 2)

RECURSIVE Carry(_, _)
Carry(raw, c) ==
    IF raw = << >>
    THEN IF c = 0 THEN << >> ELSE << c % Base >> \o Carry(<< >>, c \div Base)
    ELSE << (raw[1] + c) % Base >> \o Carry(Tail(raw), (raw[1] + c) \div Base)

RECURSIVE Strip(_)
Strip(a) ==
    IF a # << >> /\ a[Len(a)] = 0 THEN Strip(SubSeq(a, 1, Len(a) - 1)) ELSE a

\* the number with the digit values raw, which may exceed the base
BigNorm(raw) == Strip(Carry(raw, 0))

BigOfInt(n) == BigNorm(<< n >>)

Digit(a, i) == IF i \in 1..Len(a) THEN a[i] ELSE 0

BigAdd(a, b) ==
    BigNorm([i \in 1..(IF Len(a) > Len(b) THEN Len(a) ELSE Len(b)) |->
                Digit(a, i) + Digit(b, i)])

RECURSIVE DigitProducts(_, _, _, _)
DigitProducts(a, b, k, i) ==
    IF i > Len(a) THEN 0
    ELSE a[i] * Digit(b, k + 1 - i) + DigitProducts(a, b, k, i + 1)

BigMul(a, b) ==
    IF a = << >> \/ b = << >> THEN << >>
    ELSE BigNorm([k \in 1..(Len(a) + Len(b) - 1) |-> DigitProducts(a, b, k, 1)])

\* a * 2^n
BigMulPow2(a, n) ==
    IF a = << >> THEN << >>
    ELSE BigNorm([i \in 1..(n \div BaseBits) |-> 0]
                 \o [i \in 1..Len(a) |-> a[i] * Pow2(n % BaseBits)])

\* quotient and remainder of a by an int d below 2^18
RECURSIVE BigDivSmall(_, _)
BigDivSmall(a, d) ==
    IF a = << >> THEN [q |-> << >>, r |-> 0]
    ELSE LET high == BigDivSmall(Tail(a), d)
             t == high.r * Base + a[1]
         IN  [q |-> Strip(<< t \div d >> \o high.q), r |-> t % d]

\* a \div 2^n
BigDivPow2(a, n) ==
    IF n \div BaseBits >= Len(a) THEN << >>
    ELSE BigDivSmall(SubSeq(a, n \div BaseBits + 1, Len(a)),
                     Pow2(n % BaseBits)).q

BitLen(a) ==
    IF a = << >> THEN 0 ELSE BaseBits * (Len(a) - 1) + Bits(a[Len(a)])

BigOdd(a) == a # << >> /\ a[1] % 2 = 1

F64Zero == [m |-> << >>, e |-> 0]

\* the double nearest to n * 2^e, or, when sticky, to a number between
\* n * 2^e and (n + 1) * 2^e (n then has more than 54 bits)
F64Round(n, e, sticky) ==
    IF n = << >> THEN F64Zero
    ELSE IF BitLen(n) <= 53
    THEN [m |-> BigMulPow2(n, 53 - BitLen(n)), e |-> e - (53 - BitLen(n))]
    ELSE LET s == BitLen(n) - 53
             q == BigDivPow2(n, s)
             half == BigDivPow2(n, s - 1)
             rest == sticky \/ BigMulPow2(half, s - 1) # n
             up == BigOdd(half) /\ (rest \/ BigOdd(q))
             m1 == IF up THEN BigAdd(q, << 1 >>) ELSE q
         IN  IF BitLen(m1) = 54 THEN [m |-> BigDivPow2(m1, 1), e |-> e + s + 1]
             ELSE [m |-> m1, e |-> e + s]

\* the float a / b of two ints, a / b at least 2^-15: the value of the
\* literal 0.3 is F64Div(3, 10), that of 1.0 / 61 is F64Div(1, 61)
F64Div(a, b) ==
    LET d == BigDivSmall(BigMulPow2(BigOfInt(a), 70), b)
    IN  F64Round(d.q, 0 - 70, d.r # 0)

F64Mul(x, y) == F64Round(BigMul(x.m, y.m), x.e + y.e, FALSE)

(***************************************************************************)
(* Retrieval: DocumentRetriever, BM25Retriever and the rank fusion of      *)
(* HybridRetrieval, as functions of what the vector store and the keyword  *)
(* index hand back.  The initial state draws these lists, one action per   *)
(* entry point applies the method.                                         *)
(***************************************************************************)
\* RAGPipeline.top_k_documents (default 5), scaled down
TopK == 2
\* hits of the keyword index, and of the vector store for a reformulated query
MaxOtherHits == 1
\* hits of the vector store for the original query: retrieve asks for
\* 2 x top_k of them and keeps top_k
MaxSearchHits == TopK + 1

\* chunk contents: the first two differ only after their first 100 characters
D_RETURN_PREFIX == "Return policy for all items bought in our online store, in our retail shops or from a partner shop: "
D_RETURN_30 == "Return policy for all items bought in our online store, in our retail shops or from a partner shop: 30 days."
D_RETURN_60 == "Return policy for all items bought in our online store, in our retail shops or from a partner shop: 60 days."
D_SHIPPING == "Orders ship within two business days."
D_WARRANTY == "All laptops carry a two year warranty."
Contents == {D_RETURN_30, D_RETURN_60, D_SHIPPING, D_WARRANTY}

\* content[:100]
Prefix100(content) ==
    CASE content = D_RETURN_30 -> D_RETURN_PREFIX
      [] content = D_RETURN_60 -> D_RETURN_PREFIX
      [] OTHER                 -> content

\* a hit (Document, distance): its content, and the retrieval that scored it
Hit(content, src) == [content |-> content, src |-> src]

\* doc_id = doc.page_content[:100]
DocId(item) == Prefix100(item.content)

\* the sequences of at most n distinct elements of S
InjectiveSeqs(S, n) ==
    UNION {{g \in [1..k -> S] : \A i, j \in 1..k : i # j => g[i] # g[j]} :
              k \in 0..n}

\* the lists of at most n hits on distinct chunks, all scored by src
HitLists(src, n) ==
    {[i \in DOMAIN f |-> Hit(f[i], src)] : f \in InjectiveSeqs(Contents, n)}

\* mutant: retrieve hands back every hit of the store
RetrieveUncut(search, top_k) == search

\* DocumentRetriever.retrieve: ranked_results[:k] of the store's hits
Retrieve(search, top_k) == Take(search, top_k)

\* the keys of a dict filled with the doc_ids of items in order: each
\* doc_id once, at the place of its first occurrence
RECURSIVE KeyOrder(_)
KeyOrder(items) ==
    IF items = << >> THEN << >>
    ELSE LET rest == KeyOrder(SubSeq(items, 1, Len(items) - 1))
             id == DocId(items[Len(items)])
         IN  IF \E i \in 1..Len(rest) : rest[i] = id THEN rest
             ELSE Append(rest, id)

\* the positions of the items of a list that carry doc_id id
Occurrences(items, id) == {i \in 1..Len(items) : DocId(items[i]) = id}

(***************************************************************************)
(* The scores of rank fusion are sums of a few terms between 2^-10 and     *)
(* 2^-5, so every one of them is a multiple of 2^-62 below 2^-4: a score   *)
(* is held as [hi, lo] standing for (hi * 2^30 + lo) * 2^-62 with lo below *)
(* 2^30, which makes an addition a matter of two ints.                     *)
(***************************************************************************)
ScoreBits == 62
LoBits == 30
LoBase == Pow2(LoBits)

ScoreZero == [hi |-> 0, lo |-> 0]

RECURSIVE BigToInt(_)
BigToInt(a) == IF a = << >> THEN 0 ELSE a[1] + Base * BigToInt(Tail(a))

\* the number n, below 2^60, as a score
ScoreOfBig(n) ==
    LET low == BigDivSmall(n, Pow2(BaseBits))
        mid == BigDivSmall(low.q, Pow2(LoBits - BaseBits))
    IN  [hi |-> BigToInt(mid.q), lo |-> low.r + Pow2(BaseBits) * mid.r]

\* the double x, between 2^-10 and 2^-4, as a score
ScoreOf(x) == ScoreOfBig(BigMulPow2(x.m, x.e + ScoreBits))

\* the distance of the doubles around a score, in units of 2^-62: 2^(k - 53)
\* for a score of k bits, as read from its high part
HiBits53 == Pow2(53 - LoBits)
Ulp(hi) ==
    IF hi < HiBits53 THEN 1
    ELSE IF hi < 2 * HiBits53 THEN 2
    ELSE IF hi < 4 * HiBits53 THEN 4
    ELSE IF hi < 8 * HiBits53 THEN 8
    ELSE IF hi < 16 * HiBits53 THEN 16
    ELSE 32

\* the float x + y of two scores: the double nearest to the sum, ties to even
ScoreAdd(x, y) ==
    LET sum == x.lo + y.lo
        lo == sum % LoBase
        hi == x.hi + y.hi + sum \div LoBase
        unit == Ulp(hi)
        r == lo % unit
        up == 2 * r > unit \/ (2 * r = unit /\ (lo \div unit) % 2 = 1)
        rounded == lo - r + (IF up THEN unit ELSE 0)
    IN  [hi |-> hi + rounded \div LoBase, lo |-> rounded % LoBase]

ScoreLess(x, y) == x.hi < y.hi \/ (x.hi = y.hi /\ x.lo < y.lo)

\* rrf_score * weight with rrf_score = 1.0 / (rank + 60), for a weight given
\* in tenths (the literal 0.3 is the double nearest to 3 / 10)
RrfContribution(rank, weight) == ScoreOf(F64Mul(F64Div(1, rank + 60), F64Div(weight, 10)))

\* the same, evaluated once for the ranks and weights that occur
RrfContributions ==
    [rank \in 0..MaxSearchHits |-> [weight \in 1..9 |-> RrfContribution(rank, weight)]]

\* scores after the loop over one result list:
\* scores[doc_id] = scores.get(doc_id, 0) + (rrf_score * weight), rank by rank
RECURSIVE ScoreList(_, _, _)
ScoreList(scores, items, weight) ==
    IF items = << >> THEN scores
    ELSE LET before == ScoreList(scores, SubSeq(items, 1, Len(items) - 1), weight)
             id == DocId(items[Len(items)])
         IN  [before EXCEPT
                ![id] = ScoreAdd(@, RrfContributions[Len(items) - 1][weight])]

\* scores after the loops over zip(results_list, weights)
RECURSIVE ScoreLists(_, _, _)
ScoreLists(scores, results_list, weights) ==
    IF results_list = << >> THEN scores
    ELSE ScoreLists(ScoreList(scores, results_list[1], weights[1]),
                    Tail(results_list), Tail(weights))

\* results_list flattened, in the order the loops visit it
RECURSIVE Flatten(_)
Flatten(results_list) ==
    IF results_list = << >> THEN << >>
    ELSE results_list[1] \o Flatten(Tail(results_list))

\* the dict scores when the loops of _combine_results (two lists) or of
\* _combine_multiple_results are done
FusionScores(results_list, weights) ==
    LET keys == KeyOrder(Flatten(results_list))
    IN  ScoreLists([id \in {keys[i] : i \in 1..Len(keys)} |-> ScoreZero],
                   results_list, weights)

\* sorted(keys, key=score, reverse=True): descending, and stable
RECURSIVE SortedByScore(_, _)
SortedByScore(keys, score) ==
    IF keys = << >> THEN << >>
    ELSE LET rest == SortedByScore(SubSeq(keys, 1, Len(keys) - 1), score)
             k == keys[Len(keys)]
             before == {i \in 1..Len(rest) : ~ScoreLess(score[rest[i]], score[k])}
             n == Cardinality(before)
         IN  SubSeq(rest, 1, n) \o << k >> \o SubSeq(rest, n + 1, Len(rest))

\* HybridRetrieval._combine_results
CombineResults(results1, results2, weight1, weight2, top_k) ==
    LET keys == KeyOrder(results1 \o results2)
        ids == {keys[i] : i \in 1..Len(keys)}
        doc_map == [id \in ids |->
            IF Occurrences(results1, id) # {}
            THEN results1[CHOOSE i \in Occurrences(results1, id) :
                            \A j \in Occurrences(results1, id) : j <= i]
            ELSE results2[CHOOSE i \in Occurrences(results2, id) :
                            \A j \in Occurrences(results2, id) : i <= j]]
        scores == FusionScores(<< results1, results2 >>, << weight1, weight2 >>)
        sorted_docs == SortedByScore(keys, scores)
    IN  Take([i \in 1..Len(sorted_docs) |-> doc_map[sorted_docs[i]]], top_k)

\* HybridRetrieval._combine_multiple_results
CombineMultipleResults(results_list, weights, top_k) ==
    LET all == Flatten(results_list)
        keys == KeyOrder(all)
        ids == {keys[i] : i \in 1..Len(keys)}
        doc_map == [id \in ids |->
            all[CHOOSE i \in Occurrences(all, id) :
                  \A j \in Occurrences(all, id) : j <= i]]
        scores == FusionScores(results_list, weights)
        sorted_docs == SortedByScore(keys, scores)
    IN  Take([i \in 1..Len(sorted_docs) |-> doc_map[sorted_docs[i]]], top_k)

\* mutant: retrieve_hybrid fuses even without a keyword retriever
RetrieveHybridAlwaysFuses(vector_results, has_bm25, bm25_results, weights, top_k) ==
    CombineResults(vector_results, bm25_results, weights[1], weights[2], top_k)

\* HybridRetrieval.retrieve_hybrid, for the lists its retrievers return
RetrieveHybrid(vector_results, has_bm25, bm25_results, weights, top_k) ==
    IF ~has_bm25 THEN vector_results
    ELSE CombineResults(vector_results, bm25_results,
                        weights[1], weights[2], top_k)

\* HybridRetrieval.retrieve_full_hybrid, for the lists its retrievers return
RetrieveFullHybrid(vector_results, has_bm25, bm25_results, differs, reformulated_results, weights, top_k) ==
    LET results_list == << vector_results >>
            \o (IF has_bm25 THEN << bm25_results >> ELSE << >>)
            \o (IF differs THEN << reformulated_results >> ELSE << >>)
        ws == << weights[1] >>
            \o (IF has_bm25 THEN << weights[2] >> ELSE << >>)
            \o (IF differs THEN << weights[3] >> ELSE << >>)
    IN  IF Len(results_list) = 1 THEN results_list[1]
        ELSE IF Len(results_list) = 2
        THEN CombineResults(results_list[1], results_list[2],
                            ws[1], ws[2], top_k)
        ELSE CombineMultipleResults(results_list, ws, top_k)

\* HybridRetrieval.retrieve_with_reformulation, for the lists the semantic
\* retriever returns for the two queries
RetrieveWithReformulation(original_results, same, reformulated_results, weights, top_k) ==
    IF same THEN reformulated_results
    ELSE CombineResults(original_results, reformulated_results,
                        weights[1], weights[2], top_k)

\* the calls of retrievers an entry point makes, in order, as
\* <<retriever, query>>
RetrieveWithReformulationPasses(original_query, reformulated_query) ==
    << <<"vector", original_query>>, <<"vector", reformulated_query>> >>

RetrieveHybridPasses(query, has_bm25) ==
    << <<"vector", query>> >>
    \o (IF has_bm25 THEN << <<"bm25", query>> >> ELSE << >>)

RetrieveFullHybridPasses(original_query, reformulated_query, has_bm25) ==
    << <<"vector", original_query>> >>
    \o (IF has_bm25 THEN << <<"bm25", original_query>> >> ELSE << >>)
    \o (IF reformulated_query # original_query
        THEN << <<"vector", reformulated_query>> >> ELSE << >>)

\* the weights, in tenths, the entry points are called with: those of
\* process_query and another choice, and the defaults of
\* retrieve_with_reformulation
HybridWeights == {<<6, 4>>, <<4, 6>>}
FullHybridWeights == {<<5, 3, 2>>, <<2, 3, 5>>}
ReformulationWeights == {<<3, 7>>}

\* the two queries of a call: the reformulated query is the original one
\* unless the call is made with a distinct one
OriginalQuery == Q_FOLLOWUP
ReformulatedQueryOf(differs) == IF differs THEN R_GOOD ELSE OriginalQuery

\* the answers of the vector store and of the keyword index: search is
\* deterministic, so one query has one list of hits, and an index that was
\* not built answers nothing
InitRetrieval ==
    /\ sessions = << >>
    /\ now = 0
    /\ nextId = 0
    /\ threads = NoCalls
    /\ log = [i \in SessionIds |-> <<>>]
    /\ cfg \in [llm_provider : {"huggingface"},
                use_query_reformulation : BOOLEAN, bm25 : BOOLEAN]
    /\ \E search \in HitLists("vector", MaxSearchHits),
          bm25_results \in HitLists("bm25", Min(MaxOtherHits, TopK)),
          differs \in BOOLEAN,
          search_reformulated \in HitLists("reformulated", MaxOtherHits) :
          /\ ~cfg.bm25 => bm25_results = << >>
          /\ ~differs => search_reformulated = << >>
          /\ last = [op |-> "init", sid |-> 0, ret |-> None,
                     arg |-> [weights |-> << >>,
                              passes |-> << >>,
                              search |-> search,
                              bm25_results |-> bm25_results,
                              differs |-> differs,
                              search_reformulated |->
                                  IF differs THEN search_reformulated
                                  ELSE search]]

\* retriever.retrieve(reformulated_query)
RetrieveCall ==
    /\ last.op = "init"
    /\ last' = [last EXCEPT
                  !.op = "retrieve",
                  !.arg.passes =
                      << <<"vector", ReformulatedQueryOf(last.arg.differs)>> >>,
                  !.ret = Some(Retrieve(last.arg.search_reformulated, TopK))]
    /\ UNCHANGED <<sessions, now, nextId, cfg, log, threads>>

\* hybrid_retrieval.retrieve_hybrid(query, vector_weight, bm25_weight)
RetrieveHybridCall(weights) ==
    /\ last.op = "init"
    /\ last' = [last EXCEPT
                  !.op = "retrieve_hybrid",
                  !.arg.weights = weights,
                  !.arg.passes = RetrieveHybridPasses(OriginalQuery, cfg.bm25),
                  !.ret = Some(RetrieveHybrid(
                              Retrieve(last.arg.search, TopK), cfg.bm25,
                              last.arg.bm25_results, weights, TopK))]
    /\ UNCHANGED <<sessions, now, nextId, cfg, log, threads>>

\* hybrid_retrieval.retrieve_full_hybrid(original_query, reformulated_query,
\* vector_weight, bm25_weight, reformulation_weight)
RetrieveFullHybridCall(weights) ==
    /\ last.op = "init"
    /\ last' = [last EXCEPT
                  !.op = "retrieve_full_hybrid",
                  !.arg.weights = weights,
                  !.arg.passes = RetrieveFullHybridPasses(
                                     OriginalQuery,
                                     ReformulatedQueryOf(last.arg.differs),
                                     cfg.bm25),
                  !.ret = Some(RetrieveFullHybrid(
                              Retrieve(last.arg.search, TopK), cfg.bm25,
                              last.arg.bm25_results, last.arg.differs,
                              Retrieve(last.arg.search_reformulated, TopK),
                              weights, TopK))]
    /\ UNCHANGED <<sessions, now, nextId, cfg, log, threads>>

\* hybrid_retrieval.retrieve_with_reformulation(original_query,
\* reformulated_query, original_weight, reformulated_weight)
RetrieveWithReformulationCall(weights) ==
    /\ last.op = "init"
    /\ last' = [last EXCEPT
                  !.op = "retrieve_with_reformulation",
                  !.arg.weights = weights,
                  !.arg.passes = RetrieveWithReformulationPasses(
                                     OriginalQuery,
                                     ReformulatedQueryOf(last.arg.differs)),
                  !.ret = Some(RetrieveWithReformulation(
                              Retrieve(last.arg.search, TopK),
                              OriginalQuery =
                                  ReformulatedQueryOf(last.arg.differs),
                              Retrieve(last.arg.search_reformulated, TopK),
                              weights, TopK))]
    /\ UNCHANGED <<sessions, now, nextId, cfg, log, threads>>

NextRetrieval ==
    \/ RetrieveCall
    \/ \E weights \in HybridWeights : RetrieveHybridCall(weights)
    \/ \E weights \in FullHybridWeights : RetrieveFullHybridCall(weights)
    \/ \E weights \in ReformulationWeights :
          RetrieveWithReformulationCall(weights)

SpecRetrieval == InitRetrieval /\ [][NextRetrieval]_vars

(***************************************************************************)
(* Python floats (IEEE 754 doubles) of the hallucination score.  A float   *)
(* near c hundredths is the pair [c, d] standing for the number            *)
(*     c / 100 + d / (25 * 2^56),                                          *)
(* so that 25 * 2^56 times the number is the integer c * 2^54 + d.  The    *)
(* result of an operation is its exact value rounded to the nearest double *)
(* (ties to even); the doubles between 2^(k-1) and 2^k are 2^(k-53) apart. *)
(* Only 0 and the values from 0.0625 up to 4 occur.                        *)
(***************************************************************************)
Mod(a, m) == ((a % m) + m) % m

RECURSIVE Pow2Mod(_, _)
Pow2Mod(n, m) == IF n = 0 THEN 1 % m ELSE (2 * Pow2Mod(n - 1, m)) % m

\* the spacing of the doubles around the number, in units of 2^-56
Quantum(c, d) ==
    LET AtLeast(t) == (100 * c > t) \/ (100 * c = t /\ d >= 0)
    IN  IF AtLeast(20000) THEN 32
        ELSE IF AtLeast(10000) THEN 16
        ELSE IF AtLeast(5000) THEN 8
        ELSE IF AtLeast(2500) THEN 4
        ELSE IF AtLeast(1250) THEN 2
        ELSE 1

\* the double nearest to the number c / 100 + d / (25 * 2^56)
FloatRound(c, d) ==
    IF c = 0 /\ d = 0 THEN [c |-> 0, d |-> 0]
    ELSE LET m == 25 * Quantum(c, d)
             rem == Mod((c % m) * Pow2Mod(54, m) + d, m)
             rem2 == Mod((c % (2 * m)) * Pow2Mod(54, 2 * m) + d, 2 * m)
         IN  [c |-> c,
              d |-> IF 2 * rem < m THEN d - rem
                    ELSE IF 2 * rem > m THEN d + (m - rem)
                    ELSE IF rem2 = rem THEN d - rem
                    ELSE d + (m - rem)]

\* the float literal c / 100
Float(c) == FloatRound(c, 0)
FloatAdd(x, y) == FloatRound(x.c + y.c, x.d + y.d)
\* n * x for an int n
FloatMul(n, x) == FloatRound(n * x.c, n * x.d)
FloatLess(x, y) == x.c < y.c \/ (x.c = y.c /\ x.d < y.d)
FloatMin(x, y) == IF FloatLess(y, x) THEN y ELSE x

(***************************************************************************)
(* HallucinationDetector.  A response is given by what the checks of       *)
(* detect find in it: the number of uncertainty phrases and of fabrication *)
(* indicators it contains, and whether it contains an inability phrase, a  *)
(* match of one of specific_patterns, a word whose opposite stands in the  *)
(* text of the sources, and whether _is_too_generic holds of it and the    *)
(* query.  A source is its relevance_score in hundredths and its content   *)
(* ("" when the key is missing, as in the metadata process_query returns). *)
(***************************************************************************)
MaxPhrases == 3
MaxSources == 2
S_TEXT == "We accept returns within 30 days."

Responses ==
    [uncertainty : 0..MaxPhrases, fabrication : 0..MaxPhrases,
     inability : BOOLEAN, specifics : BOOLEAN, opposite : BOOLEAN,
     generic : BOOLEAN]

SourceItems == [relevance_score : {20, 90}, content : {"", S_TEXT}]
\* the lists of sources: same content key on every item, in any order of
\* relevance
SourceLists ==
    {src \in UNION {[1..n -> SourceItems] : n \in 0..MaxSources} :
        \A i, j \in 1..Len(src) : src[i].content = src[j].content}

\* sum(s.get('relevance_score', 0) for s in sources)
RECURSIVE SumRelevance(_)
SumRelevance(sources) ==
    IF sources = << >> THEN 0
    ELSE Head(sources).relevance_score + SumRelevance(Tail(sources))

\* avg_relevance < 0.5
LowRelevance(sources) == SumRelevance(sources) < 50 * Len(sources)

\* HallucinationDetector._check_contradiction
CheckContradiction(response, sources) ==
    /\ \E i \in 1..Len(sources) : sources[i].content # ""
    /\ response.opposite

\* one check of detect: when it fires, its tag and its contribution
Check(fires, tag, contribution) ==
    IF fires THEN << [tag |-> tag, add |-> contribution] >> ELSE << >>

\* the checks of detect that fire, in the order of the code
FiredChecks(response, sources, context_used) ==
    Check(~context_used, "no_context_used", Float(40))
    \o Check(sources # << >> /\ LowRelevance(sources),
             "low_source_relevance", Float(30))
    \o Check(response.uncertainty > 0,
             "contains_uncertainty_phrases_" \o ToString(response.uncertainty),
             FloatMin(FloatMul(response.uncertainty, Float(10)), Float(30)))
    \o Check(response.fabrication > 0,
             "contains_fabrication_indicators_" \o ToString(response.fabrication),
             FloatMin(FloatMul(response.fabrication, Float(15)), Float(40)))
    \o Check(response.specifics /\ Len(sources) = 0,
             "specific_details_without_sources", Float(50))
    \o Check(sources # << >> /\ CheckContradiction(response, sources),
             "potential_contradiction_with_sources", Float(60))
    \o Check(response.generic, "response_too_generic", Float(20))
    \o Check(response.inability, "explicit_inability_to_answer", Float(10))

\* hallucination_score += ..., from 0.0, check after check
RECURSIVE Accumulate(_, _)
Accumulate(score, checks) ==
    IF checks = << >> THEN score
    ELSE Accumulate(FloatAdd(score, Head(checks).add), Tail(checks))

\* mutant: detect returns the accumulated score as it is
DetectUnclamped(response, sources, context_used) ==
    LET checks == FiredChecks(response, sources, context_used)
        score == Accumulate(Float(0), checks)
    IN  [is_hallucination |-> ~FloatLess(score, Float(60)),
         reasons |-> [i \in 1..Len(checks) |-> checks[i].tag],
         score |-> score]

\* HallucinationDetector.detect
Detect(response, sources, context_used) ==
    LET checks == FiredChecks(response, sources, context_used)
        score == FloatMin(Accumulate(Float(0), checks), Float(100))
    IN  [is_hallucination |-> ~FloatLess(score, Float(60)),
         reasons |-> [i \in 1..Len(checks) |-> checks[i].tag],
         score |-> score]

\* HallucinationDetector.get_confidence_label
GetConfidenceLabel(score) ==
    IF ~FloatLess(score, Float(80)) THEN "Very High Risk"
    ELSE IF ~FloatLess(score, Float(60)) THEN "High Risk"
    ELSE IF ~FloatLess(score, Float(40)) THEN "Medium Risk"
    ELSE IF ~FloatLess(score, Float(20)) THEN "Low Risk"
    ELSE "Very Low Risk"

\* chat: the hallucination_risk of the response; round(score, 3) is the
\* float of the score's hundredths
HallucinationRisk(response, sources, context_used) ==
    LET r == Detect(response, sources, context_used)
    IN  IF FloatLess(Float(30), r.score)
        THEN Some([detected |-> r.is_hallucination,
                   confidence_score |-> Float(r.score.c),
                   risk_level |-> GetConfidenceLabel(r.score),
                   reasons |-> r.reasons])
        ELSE None

\* the detector is stateless: the initial state draws the arguments of one
\* call
InitDetector ==
    /\ sessions = << >>
    /\ now = 0
    /\ nextId = 0
    /\ threads = NoCalls
    /\ log = [i \in SessionIds |-> <<>>]
    /\ cfg = [llm_provider |-> "huggingface", use_query_reformulation |-> TRUE,
              bm25 |-> TRUE]
    /\ \E response \in Responses, sources \in SourceLists,
          context_used \in BOOLEAN :
          last = [op |-> "init", sid |-> 0, ret |-> None,
                  arg |-> [response |-> response, sources |-> sources,
                           context_used |-> context_used]]

\* hallucination_detector.detect(response, query, sources, context_used)
DetectCall ==
    /\ last.op = "init"
    /\ last' = [last EXCEPT
                  !.op = "detect",
                  !.ret = Some(Detect(last.arg.response, last.arg.sources,
                                      last.arg.context_used))]
    /\ UNCHANGED <<sessions, now, nextId, cfg, log, threads>>

\* chat, from the result of process_query on: the sources are retrieval
\* metadata without content, context_used says whether there are any
ChatAssessment ==
    /\ last.op = "init"
    /\ last.arg.context_used = (Len(last.arg.sources) > 0)
    /\ \A i \in 1..Len(last.arg.sources) : last.arg.sources[i].content = ""
    /\ last' = [last EXCEPT
                  !.op = "chat",
                  !.ret = HallucinationRisk(last.arg.response, last.arg.sources,
                                            last.arg.context_used)]
    /\ UNCHANGED <<sessions, now, nextId, cfg, log, threads>>

NextDetector == DetectCall \/ ChatAssessment

SpecDetector == InitDetector /\ [][NextDetector]_vars

(***************************************************************************)
(* Vocabulary of the claims                                                *)
(***************************************************************************)
\* the bound on a session's history
HistoryCap == 2 * MaxHistory

\* the last k elements of seq, 0 <= k <= Len(seq)
LastK(seq, k) == [i \in 1..k |-> seq[Len(seq) - k + i]]

\* id has been handed out by create_session
Created(id) == id <= nextId

\* id is in the store and its timeout has not elapsed
Live(id) ==
    /\ id \in DOMAIN sessions
    /\ now - sessions[id].last_active <= SessionTimeout

\* id was handed out and is now deleted, or its timeout has elapsed
Terminal(id) == Created(id) /\ ~Live(id)

\* every session other than id is left as it was
OthersUnchanged(id) ==
    \A j \in SessionIds \ {id} :
        /\ (j \in DOMAIN sessions') = (j \in DOMAIN sessions)
        /\ j \in DOMAIN sessions => sessions'[j] = sessions[j]

C3_Step ==
    last'.op = "add_message" =>
        LET id == last'.sid IN
        IF Live(id)
        THEN /\ last'.ret = TRUE
             /\ id \in DOMAIN sessions'
             /\ LET old == sessions[id].messages
                    new == sessions'[id].messages
                    all == Append(old, last'.arg)
                IN  new = LastK(all, Min(Len(all), HistoryCap))
             /\ sessions'[id].last_active = now'
             /\ log'[id] = Append(log[id], last'.arg)
             /\ OthersUnchanged(id)
        ELSE /\ last'.ret = FALSE
             /\ id \notin DOMAIN sessions'
             /\ log' = log
             /\ OthersUnchanged(id)

C3_AddMessage == [][C3_Step]_vars

\* add_message has just failed on an id that had accepted messages before
C3_Witness ==
    /\ last.op = "add_message" /\ last.ret = FALSE
    /\ Created(last.sid)
    /\ log[last.sid] # << >>

(***************************************************************************)
(* C4: get_session returns a session only when the time elapsed since its  *)
(* last_active does not exceed the timeout; on an expired session it       *)
(* removes it and returns None, and an id that has left the store is       *)
(* never found again.                                                      *)
(***************************************************************************)
C4_Step ==
    /\ last'.op = "get_session" =>
        LET id == last'.sid IN
        /\ last'.ret # None =>
              /\ id \in DOMAIN sessions
              /\ now - sessions[id].last_active <= SessionTimeout
              /\ last'.ret = Some(sessions[id])
              /\ sessions' = sessions
        /\ (id \in DOMAIN sessions
              /\ now - sessions[id].last_active > SessionTimeout) =>
              /\ last'.ret = None
              /\ id \notin DOMAIN sessions'
        /\ (Created(id) /\ id \notin DOMAIN sessions) => last'.ret = None
    /\ \A id \in SessionIds :
          (Created(id) /\ id \notin DOMAIN sessions) => id \notin DOMAIN sessions'

C4_GetSession == [][C4_Step]_vars

\* get_session has just evicted an expired session that held messages
C4_Witness ==
    /\ last.op = "get_session" /\ last.ret = None
    /\ Created(last.sid) /\ last.sid \notin DOMAIN sessions
    /\ log[last.sid] # << >>
    /\ now > SessionTimeout

(***************************************************************************)
(* C5: Expired and Deleted are terminal: once a created id is deleted or   *)
(* its timeout has elapsed, it stays so, get_session on it returns None    *)
(* and add_message on it returns False.                                    *)
(***************************************************************************)
C5_Step ==
    \A id \in SessionIds :
        Terminal(id) =>
            /\ Terminal(id)'
            /\ (last'.op = "get_session" /\ last'.sid = id) => last'.ret = None
            /\ (last'.op = "add_message" /\ last'.sid = id) => last'.ret = FALSE

C5_Terminal == [][C5_Step]_vars

\* an add_message was refused on a session that expired in the store
C5_Witness ==
    /\ last.op = "add_message" /\ last.ret = FALSE
    /\ Created(last.sid)
    /\ now > SessionTimeout
    /\ \E j \in DOMAIN sessions : j # last.sid

C7_GetHistory ==
    (last.op = "get_history" /\ last.arg # None) =>
        IF last.sid \in DOMAIN sessions
        THEN LET msgs == sessions[last.sid].messages
             IN  last.ret = LastK(msgs, Min(last.arg[1], Len(msgs)))
        ELSE last.ret = << >>

(***************************************************************************)
(* C8: delete_session returns True exactly when the id was in the store    *)
(* and removes it; a repeated delete_session returns False and leaves the  *)
(* store unchanged.                                                        *)
(***************************************************************************)
C8_Step ==
    last'.op = "delete_session" =>
        LET id == last'.sid IN
        /\ last'.ret = (id \in DOMAIN sessions)
        /\ id \notin DOMAIN sessions'
        /\ OthersUnchanged(id)
        /\ (last.op = "delete_session" /\ last.sid = id) =>
              (last'.ret = FALSE /\ sessions' = sessions)

C8_DeleteIdempotent == [][C8_Step]_vars

\* a delete has just been refused for an id that is no longer in the store
C8_Witness ==
    /\ last.op = "delete_session" /\ last.ret = FALSE
    /\ Created(last.sid)
    /\ sessions # << >>

(***************************************************************************)
(* C2: when the answer generation of a process_query on a live session     *)
(* fails, the session history ends with that request's user message.       *)
(***************************************************************************)
GenerationFailed == last.op = "process_query" /\ last.arg.gen \notin {"none", "200"}

C2_UserMessageKept ==
    (GenerationFailed /\ Live(last.sid)) =>
        LET msgs == sessions[last.sid].messages IN
        /\ msgs # << >>
        /\ msgs[Len(msgs)] = Message("user", last.arg.query)

(***************************************************************************)
(* C9: when the answer-generation call fails the request ends in an error: *)
(* no answer text is returned and no text describing the failure is stored *)
(* as an assistant message.                                                *)
(***************************************************************************)
C9_GenerationFailureIsError ==
    /\ GenerationFailed => last.ret.status = "raised"
    /\ \A id \in DOMAIN sessions :
          \A i \in 1..Len(sessions[id].messages) :
              sessions[id].messages[i].role = "assistant" =>
                  sessions[id].messages[i].content \notin ErrorTexts

(***************************************************************************)
(* C10: when the text-generation call of reformulate fails (error, timeout *)
(* or malformed output) the reformulated query is the original query, and  *)
(* every retrieval pass of the request runs on the original query.         *)
(***************************************************************************)
ReformulationFailed ==
    /\ last.op = "process_query"
    /\ last.ret.status = "returned"
    /\ last.arg.reform # "none"
    /\ (last.arg.reform # "200" \/ last.arg.reform_body = R_EMPTY)

C10_ReformulationFallback ==
    ReformulationFailed =>
        /\ last.arg.reformulated = last.arg.query
        /\ \A i \in 1..Len(last.arg.passes) :
              last.arg.passes[i][2] = last.arg.query

(***************************************************************************)
(* C11: reformulate never returns the empty string or a string made only   *)
(* of '?', '.', '!' and spaces, and when the generator output is invalid   *)
(* it returns the original query.                                          *)
(***************************************************************************)
\* the text the language model handed to reformulate, cleaned as line 58 does
GeneratorOutput ==
    Clean(GenerateResponse(cfg.llm_provider, last.arg.reform,
                           last.arg.reform_body, FALSE).text)

C11_NeverEmptyOrPunctuation ==
    last.op = "reformulate" =>
        /\ last.ret[1] # ""
        /\ ~TextInfo(last.ret[1]).punct
        /\ (/\ ReformulateCalls(last.arg.query, last.arg.history)
            /\ ~GenerateResponse(cfg.llm_provider, last.arg.reform,
                                 last.arg.reform_body, FALSE).raised
            /\ ~IsValidReformulation(last.arg.query, GeneratorOutput))
           => last.ret[1] = last.arg.query

(***************************************************************************)
(* Vocabulary of the retrieval claims                                      *)
(***************************************************************************)
\* the contents of the hits of a list
ContentsOf(items) == {items[i].content : i \in 1..Len(items)}

\* the lists the last call handed to rank fusion
FusedLists ==
    << Retrieve(last.arg.search, TopK) >>
    \o (IF cfg.bm25 THEN << last.arg.bm25_results >> ELSE << >>)
    \o (IF last.op = "retrieve_full_hybrid" /\ last.arg.differs
        THEN << Retrieve(last.arg.search_reformulated, TopK) >> ELSE << >>)

\* the last call was an entry point of HybridRetrieval
HybridReturned == last.op \in {"retrieve_hybrid", "retrieve_full_hybrid"}

\* the last call ran _combine_results or _combine_multiple_results
FusionRan == HybridReturned /\ Len(FusedLists) >= 2

(***************************************************************************)
(* C12: rank fusion merges two hits into one output entry exactly when     *)
(* their full content is equal: every content among the fused lists is in  *)
(* the output (when top_k leaves room for all of them), once.              *)
(***************************************************************************)
C12_MergedIffEqualContent ==
    FusionRan =>
        LET out == last.ret[1]
            inputs == ContentsOf(Flatten(FusedLists))
        IN  /\ \A i, j \in 1..Len(out) :
                  out[i].content = out[j].content => i = j
            /\ Cardinality(inputs) <= TopK => ContentsOf(out) = inputs

(***************************************************************************)
(* C13: every list returned by a retrieval entry point (single semantic    *)
(* pass, retrieve_hybrid, retrieve_full_hybrid) has at most top_k entries. *)
(***************************************************************************)
C13_AtMostTopK ==
    last.op \in {"retrieve", "retrieve_hybrid", "retrieve_full_hybrid"} =>
        Len(last.ret[1]) <= TopK

\* fusion has cut a list: the fused lists hold more than top_k doc_ids
C13_Witness ==
    /\ FusionRan
    /\ Len(KeyOrder(Flatten(FusedLists))) > TopK
    /\ Len(last.arg.search) > TopK
    /\ Len(last.ret[1]) = TopK

(***************************************************************************)
(* C14: with the keyword retriever absent and no distinct reformulated     *)
(* query, retrieve_hybrid and retrieve_full_hybrid return the semantic     *)
(* retriever's list unchanged.                                             *)
(***************************************************************************)
C14_SingleListIdentity ==
    (HybridReturned /\ Len(FusedLists) = 1) =>
        last.ret[1] = Retrieve(last.arg.search, TopK)

\* a single list that fusion would have changed: two of its hits share a
\* doc_id
C14_Witness ==
    /\ HybridReturned /\ Len(FusedLists) = 1
    /\ Len(last.ret[1]) = 2
    /\ DocId(last.ret[1][1]) = DocId(last.ret[1][2])

(***************************************************************************)
(* C15: process_query with a session id that is unknown or expired does    *)
(* not fail on that account: the history it works with is empty, no        *)
(* session exists for the id afterwards, nothing is appended anywhere, and *)
(* the request returns the generator's answer; it raises only when the     *)
(* retrieval step or the generator raises, which does not depend on the    *)
(* session.                                                                *)
(***************************************************************************)
C15_Step ==
    (last'.op = "process_query" /\ ~Live(last'.sid)) =>
        LET id == last'.sid
            a == last'.arg
            generatorRaises == /\ cfg.llm_provider = "claude"
                               /\ a.gen \notin {"none", "200"}
        IN  /\ a.history = << >>
            /\ a.reformulated = a.query
            /\ id \notin DOMAIN sessions'
            /\ OthersUnchanged(id)
            /\ log' = log
            /\ IF RetrievalRaises(cfg, a.query, a.query) \/ generatorRaises
               THEN last'.ret = Raised
               ELSE /\ last'.ret.status = "returned"
                    /\ last'.ret.response # ""

C15_MissingSessionDoesNotFail == [][C15_Step]_vars

\* an answer has been returned for an id whose session had accepted a
\* message and is gone
C15_Witness ==
    /\ last.op = "process_query"
    /\ last.ret = Returned(A_TWO_FORMATTED)
    /\ last.sid \notin DOMAIN sessions
    /\ log[last.sid] # << >>

(***************************************************************************)
(* C16: for a session id that is unknown or expired, the history endpoint  *)
(* and the delete endpoint each answer "not found" (404), not a success.   *)
(***************************************************************************)
C16_Step ==
    (/\ last'.op \in {"get_session_history", "delete_session_endpoint"}
     /\ ~Live(last'.sid)) =>
        last'.ret = HttpNotFound

C16_NotFoundReported == [][C16_Step]_vars

(***************************************************************************)
(* Vocabulary of the hallucination claims                                  *)
(***************************************************************************)
\* 1 when b holds, else 0
Indicator(b) == IF b THEN 1 ELSE 0

\* the sum, in hundredths, of the contributions of the signals that fire on
\* the arguments of the last call, hedging and fabrication markers capped
SignalSum ==
    LET a == last.arg IN
    40 * Indicator(~a.context_used)
    + 30 * Indicator(a.sources # << >> /\ LowRelevance(a.sources))
    + Min(10 * a.response.uncertainty, 30)
    + Min(15 * a.response.fabrication, 40)
    + 50 * Indicator(a.response.specifics /\ a.sources = << >>)
    + 60 * Indicator(a.response.opposite
                     /\ \E i \in 1..Len(a.sources) : a.sources[i].content # "")
    + 20 * Indicator(a.response.generic)
    + 10 * Indicator(a.response.inability)

\* 2^-50 in the unit of the d of a float: the rounding of the additions
RoundingSlack == 25 * 64

(***************************************************************************)
(* C17: the score returned by detect is the sum of the contributions of    *)
(* the signals that fire (hedging capped at 0.30, fabrication markers at   *)
(* 0.40) clamped to 1.0, to the rounding of the float additions, and lies  *)
(* in [0, 1].                                                              *)
(***************************************************************************)
C17_ScoreIsClampedSum ==
    last.op = "detect" =>
        LET score == last.ret[1].score IN
        /\ score.c = Min(SignalSum, 100)
        /\ -RoundingSlack < score.d /\ score.d < RoundingSlack
        /\ ~FloatLess(score, Float(0))
        /\ ~FloatLess(Float(100), score)

\* the clamp and the cap on fabrication markers have both cut
C17_Witness ==
    /\ last.op = "detect"
    /\ last.arg.response.fabrication * 15 > 40
    /\ SignalSum > 100
    /\ last.ret[1].score = Float(100)

(***************************************************************************)
(* C18: the chat response carries a hallucination assessment exactly when  *)
(* the risk label of the assessment is medium, high or very high.          *)
(***************************************************************************)
C18_SurfacedIffMediumOrAbove ==
    last.op = "chat" =>
        LET r == Detect(last.arg.response, last.arg.sources,
                        last.arg.context_used)
        IN  (last.ret # None) <=>
                GetConfidenceLabel(r.score) \in
                    {"Medium Risk", "High Risk", "Very High Risk"}

(***************************************************************************)
(* Vocabulary of the concurrency claims                                    *)
(***************************************************************************)
\* no call is in progress
Quiescent == \A t \in Workers \cup {Sweeper} : threads[t].pc = "idle"

\* the serial orders of the appends to id that reported success: the
\* orders of the entries of log[id] in which an append that had returned
\* when another began comes before it
SerialOrders(id) ==
    LET n == Len(log[id]) IN
    {p \in [1..n -> 1..n] :
        /\ \A i, j \in 1..n : i # j => p[i] # p[j]
        /\ \A i, j \in 1..n :
              p[i] <= log[id][p[j]].seen => i < j}

\* the history a serial run of the appends in order p leaves
SerialHistory(id, p) ==
    LET n == Len(log[id])
        all == [i \in 1..n |-> Message(log[id][p[i]].role, log[id][p[i]].content)]
    IN  LastK(all, Min(n, HistoryCap))

(***************************************************************************)
(* C19: once concurrent add_message calls on a session have returned, the  *)
(* history of the session is the one some serial order of the calls that   *)
(* reported success leaves: no such message is lost other than the oldest  *)
(* ones, the order is an append order and the bound holds.                 *)
(***************************************************************************)
C19_AppendsSerializable ==
    Quiescent =>
        \A id \in DOMAIN sessions :
            \E p \in SerialOrders(id) :
                sessions[id].messages = SerialHistory(id, p)

(***************************************************************************)
(* C20: cleanup_expired_sessions deletes a session only if it is expired   *)
(* at the moment of the deletion.                                          *)
(***************************************************************************)
C20_Step ==
    (/\ last'.op = "del"
     /\ last'.sid \in DOMAIN sessions
     /\ last'.sid \notin DOMAIN sessions') =>
        is_expired(sessions[last'.sid], now)

C20_SweepDeletesOnlyExpired == [][C20_Step]_vars

(***************************************************************************)
(* C21: the hit that rank fusion keeps for a doc_id is the first hit with  *)
(* that doc_id met when the fused lists are scanned in order, each by      *)
(* rank, in two-list and in three-list fusion alike.                       *)
(***************************************************************************)
C21_FirstEncounteredKept ==
    FusionRan =>
        LET all == Flatten(FusedLists)
            out == last.ret[1]
        IN  \A i \in 1..Len(out) :
                \E n \in Occurrences(all, DocId(out[i])) :
                    /\ \A m \in Occurrences(all, DocId(out[i])) : n <= m
                    /\ out[i] = all[n]

(***************************************************************************)
(* Vocabulary of the fusion score claims.  A document is a chunk, known by *)
(* its full content; a document stands at a rank of a list when the hit at *)
(* that rank has its content.                                              *)
(***************************************************************************)
\* the weights the last call fused its lists with
FusedWeights ==
    IF last.op = "retrieve_hybrid" THEN last.arg.weights
    ELSE << last.arg.weights[1] >>
         \o (IF cfg.bm25 THEN << last.arg.weights[2] >> ELSE << >>)
         \o (IF last.arg.differs THEN << last.arg.weights[3] >> ELSE << >>)

\* the scores the fusion of the last call computed, by doc_id
FusedScores == FusionScores(FusedLists, FusedWeights)

\* weight / (rank + 60) for a weight in tenths, cut to a multiple of 2^-62
ExactTerm(rank, weight) ==
    ScoreOfBig(BigDivSmall(BigMulPow2(BigOfInt(weight), ScoreBits),
                           10 * (rank + 60)).q)

ExactTerms ==
    [rank \in 0..MaxSearchHits |-> [weight \in 1..9 |-> ExactTerm(rank, weight)]]

\* the sum of two scores as it is, without rounding
ExactAdd(x, y) ==
    [hi |-> x.hi + y.hi + (x.lo + y.lo) \div LoBase, lo |-> (x.lo + y.lo) % LoBase]

\* the sum of the terms of the ranks at which the document stands in a list,
\* from position n on
RECURSIVE ExactListScore(_, _, _, _)
ExactListScore(items, content, weight, n) ==
    IF n > Len(items) THEN ScoreZero
    ELSE IF items[n].content # content
    THEN ExactListScore(items, content, weight, n + 1)
    ELSE ExactAdd(ExactTerms[n - 1][weight],
                  ExactListScore(items, content, weight, n + 1))

\* the sum over the lists from the n-th on
RECURSIVE ExactScore(_, _, _, _)
ExactScore(results_list, weights, content, n) ==
    IF n > Len(results_list) THEN ScoreZero
    ELSE ExactAdd(ExactListScore(results_list[n], content, weights[n], 1),
                  ExactScore(results_list, weights, content, n + 1))

\* two scores at most slack times 2^-62 apart
ScoreNear(x, y, slack) ==
    /\ x.hi - y.hi \in {0 - 1, 0, 1}
    /\ (x.hi - y.hi) * LoBase + (x.lo - y.lo) \in (0 - slack)..slack

\* what rounding can add up to: 2^-54, in units of 2^-62
ScoreSlack == Pow2(ScoreBits - 54)

\* the same sum as the floats of the code give it: the terms
\* (1.0 / (rank + 60)) * weight of the document, added in the order of the
\* scan of the lists
RECURSIVE FloatListScore(_, _, _, _, _)
FloatListScore(acc, items, content, weight, n) ==
    IF n > Len(items) THEN acc
    ELSE FloatListScore(IF items[n].content = content
                        THEN ScoreAdd(acc, RrfContributions[n - 1][weight])
                        ELSE acc,
                        items, content, weight, n + 1)

RECURSIVE FloatScore(_, _, _, _, _)
FloatScore(acc, results_list, weights, content, n) ==
    IF n > Len(results_list) THEN acc
    ELSE FloatScore(FloatListScore(acc, results_list[n], content, weights[n], 1),
                    results_list, weights, content, n + 1)

\* where the scan of the fused lists first meets the document
FirstMet(content) ==
    CHOOSE n \in 1..Len(Flatten(FusedLists)) :
        /\ Flatten(FusedLists)[n].content = content
        /\ \A m \in 1..(n - 1) : Flatten(FusedLists)[m].content # content

(***************************************************************************)
(* C22: the score rank fusion gives a document is the sum, over the fused  *)
(* lists and the 0-based ranks r at which the document stands in them, of  *)
(* weight / (r + 60), up to the rounding of the float operations.          *)
(***************************************************************************)
C22_ScoreIsWeightedRrfSum ==
    FusionRan =>
        LET scores == FusedScores
            lists == FusedLists
            weights == FusedWeights
        IN  \A c \in ContentsOf(Flatten(lists)) :
                ScoreNear(scores[Prefix100(c)], ExactScore(lists, weights, c, 1),
                          ScoreSlack)

(***************************************************************************)
(* C23: the fused output is in descending order of the cumulative scores   *)
(* of its documents, and of two documents of equal score the one the scan  *)
(* of the lists met first comes first.                                     *)
(***************************************************************************)
C23_DescendingAndStable ==
    FusionRan =>
        LET out == last.ret[1]
            lists == FusedLists
            weights == FusedWeights
            score == [i \in 1..Len(out) |->
                         FloatScore(ScoreZero, lists, weights, out[i].content, 1)]
        IN  \A i \in 1..(Len(out) - 1) :
                \/ ScoreLess(score[i + 1], score[i])
                \/ /\ score[i] = score[i + 1]
                   /\ FirstMet(out[i].content) < FirstMet(out[i + 1].content)

(***************************************************************************)
(* C24: an entry point of HybridRetrieval that takes both queries and is   *)
(* called with a reformulated query identical to the original one invokes  *)
(* the semantic retriever at most once.                                    *)
(***************************************************************************)
\* the calls of the semantic retriever among the passes
SemanticPasses(passes) == {i \in 1..Len(passes) : passes[i][1] = "vector"}

C24_OneSemanticPassWhenSame ==
    (/\ last.op \in {"retrieve_with_reformulation", "retrieve_full_hybrid"}
     /\ ~last.arg.differs)
        => Cardinality(SemanticPasses(last.arg.passes)) <= 1

(***************************************************************************)
(* C25: the retrieval step of process_query runs, when the reformulated    *)
(* query differs from the original one, a semantic pass on the original    *)
(* query with weight 0.5, a keyword pass on it with weight 0.3 if there is *)
(* a keyword retriever, and a semantic pass on the reformulated query with *)
(* weight 0.2; otherwise it runs exactly one semantic pass, on the         *)
(* original query, and one keyword pass on it if there is a keyword        *)
(* retriever.                                                              *)
(***************************************************************************)
\* the passes of a retriever among the passes of a request
PassesOf(passes, retriever) ==
    {i \in 1..Len(passes) : passes[i][1] = retriever}

FailsHeuristic(query) ==
    /\ TextInfo(query).tokens > 3
    /\ ~TextInfo(query).ref
    /\ ~(TextInfo(query).qword /\ TextInfo(query).tokens <= 5)

C26_PassThrough ==
    (/\ last.op = "reformulate"
     /\ last.arg.history = << >> \/ FailsHeuristic(last.arg.query))
        => /\ last.ret = Some(last.arg.query)
           /\ ~last.arg.called

\* both cases, with a reply at hand that a call would have turned into
\* another query
C26_Witness ==
    /\ last.op = "reformulate"
    /\ last.arg.reform = "200" /\ last.arg.reform_body = R_GOOD
    /\ \/ last.arg.history = << >> /\ ~FailsHeuristic(last.arg.query)
       \/ last.arg.history # << >> /\ FailsHeuristic(last.arg.query)
    /\ last.ret = Some(last.arg.query)

(***************************************************************************)
(* C27: a non-streaming process_query on a live session appends at most    *)
(* the user message and then the assistant message, in that order; the     *)
(* assistant message is appended only if the answer-generation call has    *)
(* returned successfully, so a request whose generation fails appends no   *)
(* assistant message; and the history the reformulation and generation     *)
(* calls work with is the one stored before the request, without any       *)
(* message of the request.                                                 *)
(***************************************************************************)
C27_Step ==
    (/\ last'.op = "process_query"
     /\ ~last'.arg.stream
     /\ GetSessionRet(sessions, last'.sid, now) # None) =>
        LET id == last'.sid
            a == last'.arg
            added == SubSeq(log'[id], Len(log[id]) + 1, Len(log'[id]))
        IN  /\ added \in {<< >>,
                          << Message("user", a.query) >>,
                          << Message("user", a.query),
                             Message("assistant", last'.ret.response) >>}
            /\ Len(added) = 2 => a.gen = "200"
            /\ a.history = GetHistoryRet(sessions, id, None, now)

C27_AssistantAfterGeneration == [][C27_Step]_vars

(***************************************************************************)
(* C28: with the requests of a session served one at a time, the history   *)
(* stored for the session after a non-streaming process_query has even     *)
(* length and its roles alternate user, assistant, starting with user,     *)
(* also when the trimming at 2 x max_history has dropped messages.         *)
(***************************************************************************)
Alternates(msgs) ==
    /\ Len(msgs) % 2 = 0
    /\ \A i \in 1..Len(msgs) :
          msgs[i].role = IF i % 2 = 1 THEN "user" ELSE "assistant"

AddressedOps ==
    {"add_message", "get_session", "get_history", "delete_session",
     "process_query"}

C30_Step == last'.op \in AddressedOps => OthersUnchanged(last'.sid)

C30_OtherSessionsUntouched == [][C30_Step]_vars

\* a call has found its session gone while another session, itself past
\* its timeout and holding messages, is still in the store
C30_Witness ==
    /\ last.op \in AddressedOps
    /\ Created(last.sid) /\ last.sid \notin DOMAIN sessions
    /\ log[last.sid] # << >>
    /\ \E b \in DOMAIN sessions :
          /\ sessions[b].messages # << >>
          /\ is_expired(sessions[b], now)

====
